---------------------------- MODULE Spec2Model ----------------------------
(***************************************************************************)
(* A model of the two notebooks of material-predictions:                   *)
(*   notebooks/1_evaluate_models.ipynb  (load, sample, convert, featurize, *)
(*       grouped k-fold evaluation of several models in a process pool,    *)
(*       compilation of the results, fit and export of one model), and     *)
(*   the predictor notebook (load, validate, convert, featurize, zero-fill,*)
(*       load a pickled model, predict, binary_to_vec, write).             *)
(* A notebook is a list of cells run top to bottom; pc names the next cell *)
(* and one action models one cell.  utils/utils.py, utils/data_manager.py  *)
(* and utils/featurizer.py are not among the source files: the operators   *)
(* that stand for them are written from the notebooks' own descriptions of *)
(* them and from the specification.  Positions are 1-based here (numpy's   *)
(* are 0-based).                                                           *)
(***************************************************************************)
EXTENDS Integers, Sequences, FiniteSets

VARIABLES
    nb,               \* which program runs: "evaluate", "predict", "kfold", "pool"
    pc,               \* the next cell (or step) of that program
    err,              \* "" or the exception that stopped the run
    oversample,       \* what the notebook-global name `oversample` is bound to
    file,             \* the table in the csv file at load_path
    dm_data,          \* dm.data
    featurized_data,  \* dm.featurized_data
    dm_groups,        \* dm.groups
    dm_outputs,       \* dm.outputs
    k_folds,          \* the arguments bound by partial(run_k_folds, ...)
    results,          \* results of pool.map, one per model, or <<>>
    res_df,           \* the compiled table
    saved,            \* what was written to save_path
    train,            \* the index multiset of the whole-dataset oversample call
    handed,           \* the last feature matrix given to a classifier's fit/predict
    model,            \* the classifier object of the notebook
    exported,         \* the pickled model file
    labeled_data,     \* dm.labeled_data
    fold,             \* run_k_folds: the fold being evaluated
    fold_train,       \* run_k_folds: training multiset of that fold
    fold_test,        \* run_k_folds: held-out indices of that fold
    fold_part,        \* run_k_folds: the fold's training partition before sampling
    rng,              \* position of the parent process in the seeded random stream
    workers,          \* pool: per worker process, its state
    taskq,            \* pool: models not yet taken by a worker
    outcome,          \* pool: per model, the outcome collected so far
    raising           \* pool: the models whose evaluation raises on the data

vars == << nb, pc, err, oversample, file, dm_data, featurized_data, dm_groups,
           dm_outputs, k_folds, results, res_df, saved, train, handed, model,
           exported, labeled_data, fold, fold_train, fold_test, fold_part,
           rng, workers, taskq, outcome, raising >>

foldVars == << fold, fold_train, fold_test, fold_part >>

poolVars == << workers, taskq, outcome, raising >>

-----------------------------------------------------------------------------
(* Bounds of the model.                                                    *)

\* Records in an input file.
MaxRecords == 6
\* Records kept by dm.sample_data (the notebook passes 100 for a file of 2572).
SampleSize == 5
\* Entries of a training record's stability vector (one converted row each).
VecLen == 3
\* Rows, group ids and fold counts drawn for run_k_folds taken alone.
MaxRows == 4
MaxGroupId == 3
MaxSplits == 3
\* Worker processes of the pool (mp.cpu_count() of the host).
NumWorkers == 2
\* Distinct indices the draws of the whole-dataset oversample call fall on.
MaxDrawn == 1
\* Models whose evaluation raises in a run of the pool.
MaxRaising == 1
\* Records in a test file of the predictor.
MaxTestRecords == 2

(* Program constants.                                                      *)

\* np.random.seed(8)
Seed == 8
\* splits=5 in partial(run_k_folds, ...)
Splits == 5
\* "running 10-fold group cross validation" in the notebook's introduction.
DocumentedFolds == 10
\* Rows convert_inputs makes of one test record: 8239 rows from 749 records.
NumCompositions == 11

\* Configuration cell of the evaluation notebook.
data_ramp == FALSE
oversample_flag == TRUE
feature_set_eval == <<"standard">>
\* Configuration cell of the predictor notebook.
feature_set_pred == <<"standard", "cmpd_energy">>

-----------------------------------------------------------------------------
(* Sequences and sets.                                                     *)

Range(s) == {s[i] : i \in DOMAIN s}

RECURSIVE SumOver(_, _)
SumOver(S, f) ==
    IF S = {} THEN 0
    ELSE LET x == CHOOSE y \in S : TRUE IN f[x] + SumOver(S \ {x}, f)

RECURSIVE SeqOfSet(_)
\* The elements of a set of integers in increasing order.
SeqOfSet(S) ==
    IF S = {} THEN <<>>
    ELSE LET m == CHOOSE x \in S : \A y \in S : x <= y
         IN <<m>> \o SeqOfSet(S \ {m})

RECURSIVE Flatten(_)
Flatten(ss) == IF ss = <<>> THEN <<>> ELSE Head(ss) \o Flatten(Tail(ss))

\* The subsequence of s at the positions in the set P, in order.
SelectAt(s, P) == LET idx == SeqOfSet(P) IN [i \in 1..Len(idx) |-> s[idx[i]]]

Reverse(s) == [i \in 1..Len(s) |-> s[Len(s) + 1 - i]]

-----------------------------------------------------------------------------
(* Elements and their tabulated properties (pymatgen / matminer data).     *)

\* An undefined value (numpy's NaN); defined values are naturals.
NaN == -1

\* M1, M2, M3: ordinary elements.  Ng: a noble gas without electronegativity
\* (He, Ne, Ar in the predictor's warnings).  Ud: an element that is no noble
\* gas and has a tabulated property missing.  Jx: not an element symbol.
Elements == {"M1", "M2", "M3", "Ng", "Ud"}

NobleGases == {"Ng"}

Electronegativity(e) ==
    CASE e = "M1" -> 1
      [] e = "M2" -> 3
      [] e = "M3" -> 2
      [] OTHER    -> NaN

\* Composition(...).valid of pymatgen.
ValidSymbol(e) == e \in Elements


-----------------------------------------------------------------------------
(* DataManager: conversion of records to binary-compound rows.             *)

\* The integer formula A_qa B_qb of entry j (0-based) of a vector of n entries.
IntegerFormula(j, n) == [qa |-> n - 1 - j, qb |-> j]

\* The elements a converted row's composition contains.
RowElements(r) ==
    (IF r.qa > 0 THEN {r.formulaA} ELSE {}) \cup
    (IF r.qb > 0 THEN {r.formulaB} ELSE {})

\* The rows made of the record at position p of the table: one per entry of
\* its stability vector, all carrying the number given to the record's system.
RowsOfTrainingRecord(rec, p) ==
    [j \in 1..Len(rec.stabilityVec) |->
        [formulaA |-> rec.formulaA, formulaB |-> rec.formulaB,
         qa |-> IntegerFormula(j - 1, Len(rec.stabilityVec)).qa,
         qb |-> IntegerFormula(j - 1, Len(rec.stabilityVec)).qb,
         stable |-> rec.stabilityVec[j], group |-> p, rec |-> rec.index,
         composition |-> FALSE, features |-> TRUE]]

\* dm.to_binary_classes()
to_binary_classes(data) ==
    Flatten([p \in 1..Len(data) |-> RowsOfTrainingRecord(data[p], p)])

\* dm.get_pymatgen_composition()
get_pymatgen_composition(data) ==
    [i \in 1..Len(data) |-> [data[i] EXCEPT !.composition = TRUE]]

\* dm.remove_noble_gasses()
remove_noble_gasses(data) ==
    SelectSeq(data, LAMBDA r : RowElements(r) \cap NobleGases = {})

\* dm.remove_features()
remove_features(data) ==
    [i \in 1..Len(data) |-> [data[i] EXCEPT !.features = FALSE]]

\* dm.sample_data(n): n records of the table (all of them when it has fewer),
\* in an order the random generator decides.  The outcomes enumerated are the
\* subsets of n positions, in file order or reversed.
sample_data(data, n) ==
    IF Len(data) <= n THEN {data, Reverse(data)}
    ELSE LET picks == {P \in SUBSET (1..Len(data)) : Cardinality(P) = n}
         IN {SelectAt(data, P) : P \in picks} \cup
            {Reverse(SelectAt(data, P)) : P \in picks}

-----------------------------------------------------------------------------
(* Featurizer.                                                             *)

\* Stoichiometric norm of an integer formula.
StoichiometricNorm(r) == IF r.qa >= r.qb THEN r.qa ELSE r.qb

\* An elemental-property statistic: undefined as soon as one element of the
\* composition has the property undefined.
ElementProperty(r) ==
    IF \E e \in RowElements(r) : Electronegativity(e) = NaN THEN NaN
    ELSE r.qa * Electronegativity(r.formulaA) + r.qb * Electronegativity(r.formulaB)

\* A cohesive-energy lookup.
CohesiveEnergy(r) == r.qa + 2 * r.qb

FeaturesOf(r, keyword) ==
    IF keyword = "standard" THEN <<StoichiometricNorm(r), ElementProperty(r)>>
    ELSE <<CohesiveEnergy(r)>>

\* Featurizer(feature_set, key).featurize(data): one vector per row.
featurize(data, feature_set) ==
    [i \in 1..Len(data) |->
        Flatten([k \in 1..Len(feature_set) |-> FeaturesOf(data[i], feature_set[k])])]

\* np.nan_to_num on a matrix.
nan_to_num(matrix) ==
    [i \in 1..Len(matrix) |->
        [c \in 1..Len(matrix[i]) |-> IF matrix[i][c] = NaN THEN 0 ELSE matrix[i][c]]]

\* The number of columns of a matrix featurized with feature_set.
FeatureWidth(feature_set) ==
    Len(featurize(<< [formulaA |-> "M1", formulaB |-> "M2", qa |-> 1, qb |-> 1] >>,
                  feature_set)[1])

HasNaN(matrix) == \E i \in 1..Len(matrix) : \E c \in 1..Len(matrix[i]) : matrix[i][c] = NaN

-----------------------------------------------------------------------------
(* utils: grouped k-fold splitting and oversampling.                       *)

GroupIds(groups) == Range(groups)

GroupCount(groups, g) == Cardinality({i \in DOMAIN groups : groups[i] = g})

RECURSIVE GroupOrder(_, _)
\* The group ids in G, the most frequent first (of two equally frequent ones,
\* the larger id first).
GroupOrder(groups, G) ==
    IF G = {} THEN <<>>
    ELSE LET g == CHOOSE x \in G : \A y \in G :
                     \/ GroupCount(groups, x) > GroupCount(groups, y)
                     \/ GroupCount(groups, x) = GroupCount(groups, y) /\ x >= y
         IN <<g>> \o GroupOrder(groups, G \ {g})

\* The first of the lightest folds.
LightestFold(loads) ==
    CHOOSE f \in DOMAIN loads : \A h \in DOMAIN loads :
        loads[f] < loads[h] \/ (loads[f] = loads[h] /\ f <= h)

RECURSIVE Distribute(_, _, _)
\* The folds given, in turn, to the groups of `order`: each goes to the fold
\* that holds the fewest rows so far.
Distribute(order, groups, loads) ==
    IF order = <<>> THEN <<>>
    ELSE LET f == LightestFold(loads)
         IN <<f>> \o Distribute(Tail(order), groups,
                        [loads EXCEPT ![f] = @ + GroupCount(groups, Head(order))])

\* The fold of each row under a grouped split into `splits` folds.
FoldOfRow(groups, splits) ==
    LET order  == GroupOrder(groups, GroupIds(groups))
        assign == Distribute(order, groups, [f \in 1..splits |-> 0])
    IN [i \in DOMAIN groups |->
           assign[CHOOSE q \in 1..Len(order) : order[q] = groups[i]]]

\* A split whose held-out sets grow from fold to fold, so that they overlap.
TestIndicesCumulative(groups, splits, f) ==
    LET foldOf == FoldOfRow(groups, splits)
    IN {i \in DOMAIN groups : foldOf[i] <= f}

\* The held-out indices of fold f.
TestIndices(groups, splits, f) ==
    LET foldOf == FoldOfRow(groups, splits)
    IN {i \in DOMAIN groups : foldOf[i] = f}

\* The training indices of fold f.
TrainIndices(groups, splits, f) == DOMAIN groups \ TestIndices(groups, splits, f)

\* A grouped split needs at least as many groups as folds.
CanSplit(groups, splits) == Cardinality(GroupIds(groups)) >= splits

\* The multiset, as a count per index, that holds every index of S once.
BagOfSet(S, n) == [i \in 1..n |-> IF i \in S THEN 1 ELSE 0]

\* The class resampled: the one with fewer examples in the partition.
MinorityOf(part, outputs) ==
    LET ones  == {i \in part : outputs[i] = 1}
        zeros == part \ ones
    IN IF Cardinality(ones) <= Cardinality(zeros) THEN ones ELSE zeros

\* resample(minority, n_samples=m): the draws with replacement, as a count per
\* index, that fall on at most d distinct indices.
ResampleDraws(minority, m, d) ==
    UNION { { [i \in minority |-> IF i \in D THEN c[i] ELSE 0] :
                c \in {c \in [D -> 1..m] : SumOver(D, c) = m} } :
            D \in {D \in SUBSET minority : D # {} /\ Cardinality(D) <= d} }

\* oversample(train, outputs) with the draws limited to d distinct indices: the
\* majority class as it is, and as many draws with replacement from the
\* minority class.  The set of the outcomes: empty when there is nothing to draw
\* from (the call raises).
OversampleDrawing(part, outputs, d) ==
    LET minority == MinorityOf(part, outputs)
        majority == part \ minority
        m        == Cardinality(majority)
    IN IF minority = {} THEN {}
       ELSE {[i \in 1..Len(outputs) |->
                 IF i \in majority THEN 1
                 ELSE IF i \in minority THEN dr[i] ELSE 0] :
             dr \in ResampleDraws(minority, m, d)}

\* oversample(train, outputs) raises: there is nothing to draw from.
OversampleRaises(part, outputs) == MinorityOf(part, outputs) = {}

\* oversample(train, outputs), every outcome.
OversampleOutcomes(part, outputs) ==
    OversampleDrawing(part, outputs, Cardinality(part))

-----------------------------------------------------------------------------
(* Inputs.                                                                 *)

\* Distinct chemical systems, in the order the input files list them.
AllSystems ==
    << <<"M1", "M2">>, <<"M2", "Ng">>, <<"M1", "M3">>, <<"Ng", "M3">>,
       <<"M2", "M3">>, <<"M3", "Ud">>, <<"M1", "Ud">>, <<"M1", "Ng">>,
       <<"M2", "Ud">>, <<"Ng", "Ud">> >>

\* Stability vectors of a training record: every compound stable, or only the
\* middle one.
StabilityVecs ==
    { [j \in 1..VecLen |-> 1],
      [j \in 1..VecLen |-> IF j = (VecLen + 1) \div 2 THEN 1 ELSE 0] }

\* The training tables: the first n systems, each with a stability vector.
TrainingFiles ==
    UNION { { [p \in 1..n |->
                 [formulaA |-> AllSystems[p][1], formulaB |-> AllSystems[p][2],
                  stabilityVec |-> v[p], index |-> p]] :
              v \in [1..n -> StabilityVecs] } : n \in 1..MaxRecords }

\* models = [GaussianNB(), SVC(), SRC(), LogisticRegression(), DummyClassifier(...)]
Models ==
    <<"GaussianNB", "SVC", "RandomForestClassifier", "LogisticRegression",
      "DummyClassifier">>

\* Python's truth value of what a name is bound to.
Truthy(v) == v \in {"function", "True"}

PyBool(b) == IF b THEN "True" ELSE "False"

Idle == [nb |-> "none"]

-----------------------------------------------------------------------------
(* The evaluation notebook, cell by cell.                                  *)

InitEvaluate ==
    /\ nb = "evaluate" /\ pc = "import" /\ err = ""
    /\ oversample = "unbound"
    /\ file \in TrainingFiles
    /\ dm_data = <<>> /\ featurized_data = <<>>
    /\ dm_groups = <<>> /\ dm_outputs = <<>>
    /\ k_folds = Idle /\ results = <<>> /\ res_df = <<>> /\ saved = <<>>
    /\ train = <<>> /\ handed = <<>> /\ model = Idle /\ exported = Idle
    /\ labeled_data = <<>>
    /\ fold = 0 /\ fold_train = <<>> /\ fold_test = {} /\ fold_part = {}
    /\ rng = 0 /\ workers = <<>> /\ taskq = <<>> /\ outcome = <<>> /\ raising = {}

\* from utils.utils import (Result, run_k_folds, ..., compile_data, oversample)
ImportCell ==
    /\ nb = "evaluate" /\ pc = "import"
    /\ oversample' = "function"
    /\ pc' = "config"
    /\ UNCHANGED << nb, err, file, dm_data, featurized_data, dm_groups, dm_outputs,
                    k_folds, results, res_df, saved, train, handed, model, exported,
                    labeled_data, fold, fold_train, fold_test, fold_part, rng,
                    poolVars >>

\* The import cell run again later in the session (its execution count, 31, is
\* above those of the cells that follow it): the imported names are bound anew.
RerunImportCell ==
    /\ nb = "evaluate" /\ pc \notin {"import", "config", "error", "done"}
    /\ oversample # "function"
    /\ oversample' = "function"
    /\ UNCHANGED << nb, pc, err, file, dm_data, featurized_data, dm_groups,
                    dm_outputs, k_folds, results, res_df, saved, train, handed,
                    model, exported, labeled_data, fold, fold_train, fold_test,
                    fold_part, rng, poolVars >>

\* np.random.seed(8); ...; oversample = True; data_ramp = False; feature_set = [...]
ConfigCell ==
    /\ nb = "evaluate" /\ pc = "config"
    /\ rng' = 0
    /\ oversample' = PyBool(oversample_flag)
    /\ pc' = "load"
    /\ UNCHANGED << nb, err, file, dm_data, featurized_data, dm_groups, dm_outputs,
                    k_folds, results, res_df, saved, train, handed, model, exported,
                    labeled_data, fold, fold_train, fold_test, fold_part,
                    poolVars >>

\* dm = DataManager(load_path, save_path); dm.load()
LoadCell ==
    /\ nb = "evaluate" /\ pc = "load"
    /\ dm_data' = file
    /\ pc' = "sample"
    /\ UNCHANGED << nb, err, oversample, file, featurized_data, dm_groups,
                    dm_outputs, k_folds, results, res_df, saved, train, handed,
                    model, exported, labeled_data, fold, fold_train, fold_test,
                    fold_part, rng, poolVars >>

\* if not data_ramp: dm.sample_data(100)
SampleCell ==
    /\ nb = "evaluate" /\ pc = "sample"
    /\ IF data_ramp THEN UNCHANGED << dm_data, rng >>
       ELSE /\ dm_data' \in sample_data(dm_data, SampleSize)
            /\ rng' = rng + 1
    /\ pc' = "convert"
    /\ UNCHANGED << nb, err, oversample, file, featurized_data, dm_groups,
                    dm_outputs, k_folds, results, res_df, saved, train, handed,
                    model, exported, labeled_data, fold, fold_train, fold_test,
                    fold_part, poolVars >>

\* dm.to_binary_classes(); dm.get_pymatgen_composition();
\* dm.remove_noble_gasses(); dm.remove_features()
\* The conversion cell without dm.remove_noble_gasses().
ConvertedTableWithNobleGases(data) ==
    remove_features(get_pymatgen_composition(to_binary_classes(data)))

\* A conversion that also drops a row of the converted table.
ConvertedTableLessARow(data) ==
    Tail(remove_features(remove_noble_gasses(
        get_pymatgen_composition(to_binary_classes(data)))))

\* The table the conversion cell leaves in dm.data.
ConvertedTable(data) ==
    remove_features(remove_noble_gasses(
        get_pymatgen_composition(to_binary_classes(data))))

ConvertCell ==
    /\ nb = "evaluate" /\ pc = "convert"
    /\ dm_data' = ConvertedTable(dm_data)
    /\ pc' = "shuffle"
    /\ UNCHANGED << nb, err, oversample, file, featurized_data, dm_groups,
                    dm_outputs, k_folds, results, res_df, saved, train, handed,
                    model, exported, labeled_data, fold, fold_train, fold_test,
                    fold_part, rng, poolVars >>

\* if data_ramp: dm.data = dm.data.sample(frac=1).reset_index(drop=True)
ShuffleCell ==
    /\ nb = "evaluate" /\ pc = "shuffle"
    /\ IF data_ramp THEN /\ dm_data' \in {dm_data, Reverse(dm_data)}
                         /\ rng' = rng + 1
       ELSE UNCHANGED << dm_data, rng >>
    /\ pc' = "featurize"
    /\ UNCHANGED << nb, err, oversample, file, featurized_data, dm_groups,
                    dm_outputs, k_folds, results, res_df, saved, train, handed,
                    model, exported, labeled_data, fold, fold_train, fold_test,
                    fold_part, poolVars >>

\* f = Featurizer(feature_set, mp_api_key); dm.featurized_data = f.featurize(dm.data)
FeaturizeCell ==
    /\ nb = "evaluate" /\ pc = "featurize"
    /\ featurized_data' = featurize(dm_data, feature_set_eval)
    /\ pc' = "groups"
    /\ UNCHANGED << nb, err, oversample, file, dm_data, dm_groups, dm_outputs,
                    k_folds, results, res_df, saved, train, handed, model, exported,
                    labeled_data, fold, fold_train, fold_test, fold_part, rng,
                    poolVars >>

\* The label column taken for the group column.
GroupColumnOfLabels(data) == [i \in 1..Len(data) |-> data[i].stable]

\* The column of dm.data that becomes dm.groups.
GroupColumn(data) == [i \in 1..Len(data) |-> data[i].group]

\* The label column read from the last row to the first.
OutputColumnReversed(data) ==
    [i \in 1..Len(data) |-> data[Len(data) + 1 - i].stable]

\* The column of dm.data that becomes dm.outputs.
OutputColumn(data) == [i \in 1..Len(data) |-> data[i].stable]

\* dm.groups = dm.data['group']
GroupsCell ==
    /\ nb = "evaluate" /\ pc = "groups"
    /\ dm_groups' = GroupColumn(dm_data)
    /\ pc' = "outputs"
    /\ UNCHANGED << nb, err, oversample, file, dm_data, featurized_data, dm_outputs,
                    k_folds, results, res_df, saved, train, handed, model, exported,
                    labeled_data, fold, fold_train, fold_test, fold_part, rng,
                    poolVars >>

\* dm.outputs = dm.data['stable']
OutputsCell ==
    /\ nb = "evaluate" /\ pc = "outputs"
    /\ dm_outputs' = OutputColumn(dm_data)
    /\ pc' = "partial"
    /\ UNCHANGED << nb, err, oversample, file, dm_data, featurized_data, dm_groups,
                    k_folds, results, res_df, saved, train, handed, model, exported,
                    labeled_data, fold, fold_train, fold_test, fold_part, rng,
                    poolVars >>


\* The fold counts a run is configured with: the notebook's splits=5, or any
\* count from 2 when run_k_folds is taken alone.
SplitChoices == IF nb = "evaluate" THEN {Splits} ELSE 2..MaxSplits

\* The binding without the group column: every row is a group of its own.
KFoldsPartialUngrouped(splits) ==
    [nb |-> "partial", inputs |-> featurized_data, outputs |-> dm_outputs,
     groups |-> [i \in 1..Len(dm_groups) |-> i], sampling |-> oversample,
     ramp |-> data_ramp, splits |-> splits]

\* partial(run_k_folds, inputs=dm.featurized_data, outputs=dm.outputs,
\*         groups=dm.groups, sampling=oversample, ramp=data_ramp, splits=5)
KFoldsPartial(splits) ==
    [nb |-> "partial", inputs |-> featurized_data, outputs |-> dm_outputs,
     groups |-> dm_groups, sampling |-> oversample, ramp |-> data_ramp,
     splits |-> splits]

PartialCell ==
    /\ nb \in {"evaluate", "kfold"} /\ pc = "partial"
    /\ \E s \in SplitChoices : k_folds' = KFoldsPartial(s)
    /\ pc' = IF nb = "evaluate" THEN "pool" ELSE "run"
    /\ UNCHANGED << nb, err, oversample, file, dm_data, featurized_data, dm_groups,
                    dm_outputs, results, res_df, saved, train, handed, model,
                    exported, labeled_data, foldVars, rng, poolVars >>

-----------------------------------------------------------------------------
(* run_k_folds(model, inputs, outputs, groups, sampling, ramp, splits),    *)
(* one fold per step.                                                      *)

InitKFold ==
    /\ nb = "kfold" /\ pc = "partial" /\ err = ""
    /\ oversample \in {"True", "False"}
    /\ file = <<>> /\ dm_data = <<>>
    /\ \E n \in 1..MaxRows :
         /\ featurized_data = [i \in 1..n |-> <<i>>]
         /\ dm_groups \in [1..n -> 1..MaxGroupId]
         /\ dm_outputs \in [1..n -> {0, 1}]
    /\ k_folds = Idle /\ results = <<>> /\ res_df = <<>> /\ saved = <<>>
    /\ train = <<>> /\ handed = <<>> /\ model = Idle /\ exported = Idle
    /\ labeled_data = <<>>
    /\ fold = 0 /\ fold_train = <<>> /\ fold_test = {} /\ fold_part = {}
    /\ rng = 0 /\ workers = <<>> /\ taskq = <<>> /\ outcome = <<>> /\ raising = {}

\* Training multisets resampled from the whole table instead of the partition.
FoldTrainOutcomesOfTable(kf, part) ==
    IF Truthy(kf.sampling) THEN OversampleOutcomes(DOMAIN kf.outputs, kf.outputs)
    ELSE {BagOfSet(part, Len(kf.outputs))}

\* The training multisets a fold can be fitted on.
FoldTrainOutcomes(kf, part) ==
    IF Truthy(kf.sampling) THEN OversampleOutcomes(part, kf.outputs)
    ELSE {BagOfSet(part, Len(kf.outputs))}

\* GroupKFold(n_splits=splits).split(...) raises: fewer groups than folds.
RunKFoldsSplitRaises ==
    /\ nb = "kfold" /\ pc = "run" /\ fold = 0
    /\ ~CanSplit(k_folds.groups, k_folds.splits)
    /\ err' = "ValueError" /\ pc' = "error"
    /\ UNCHANGED << nb, oversample, file, dm_data, featurized_data, dm_groups,
                    dm_outputs, k_folds, results, res_df, saved, train, handed,
                    model, exported, labeled_data, foldVars, rng, poolVars >>

\* One iteration: split, oversample the training partition, fit and score.
RunKFoldsFold ==
    /\ nb = "kfold" /\ pc = "run" /\ fold < k_folds.splits
    /\ CanSplit(k_folds.groups, k_folds.splits)
    /\ LET f    == fold + 1
           test == TestIndices(k_folds.groups, k_folds.splits, f)
           part == DOMAIN k_folds.groups \ test
       IN /\ fold_train' \in FoldTrainOutcomes(k_folds, part)
          /\ fold' = f /\ fold_part' = part /\ fold_test' = test
          /\ results' = Append(results, [test |-> test, train |-> part])
          /\ pc' = IF f = k_folds.splits THEN "return" ELSE "run"
    /\ handed' = k_folds.inputs
    /\ UNCHANGED << nb, err, oversample, file, dm_data, featurized_data, dm_groups,
                    dm_outputs, k_folds, res_df, saved, train, model, exported,
                    labeled_data, rng, poolVars >>

\* oversample raises in an iteration: no minority example to draw from.
RunKFoldsSampleRaises ==
    /\ nb = "kfold" /\ pc = "run" /\ fold < k_folds.splits
    /\ CanSplit(k_folds.groups, k_folds.splits)
    /\ Truthy(k_folds.sampling)
    /\ OversampleRaises(TrainIndices(k_folds.groups, k_folds.splits, fold + 1),
                        k_folds.outputs)
    /\ err' = "ValueError" /\ pc' = "error"
    /\ UNCHANGED << nb, oversample, file, dm_data, featurized_data, dm_groups,
                    dm_outputs, k_folds, results, res_df, saved, train, handed,
                    model, exported, labeled_data, foldVars, rng, poolVars >>

NextKFold ==
    \/ PartialCell
    \/ RunKFoldsSplitRaises
    \/ RunKFoldsFold
    \/ RunKFoldsSampleRaises

\* run_k_folds on every table of up to MaxRows rows, for every fold count.
SpecKFold == InitKFold /\ [][NextKFold]_vars

-----------------------------------------------------------------------------
(* The evaluation notebook, from the pool to the exported model.           *)

\* Draws a model's fit takes from numpy's global generator (random_state=None):
\* the seed of SVC and of LogisticRegression, the trees of the random forest.
ModelDraws(name) ==
    CASE name = "SVC" -> 1
      [] name = "RandomForestClassifier" -> 1
      [] name = "LogisticRegression" -> 1
      [] OTHER -> 0

\* Draws one fold of run_k_folds takes: the resampling, then the fit.
DrawsPerFold(m, kf) ==
    (IF Truthy(kf.sampling) THEN 1 ELSE 0) + ModelDraws(Models[m])

\* The stretch of the generator's stream an evaluation that starts at `start`
\* consumes; its resampled training sets and fitted models are a function of it.
Consumed(m, kf, start) ==
    IF DrawsPerFold(m, kf) = 0 THEN <<>>
    ELSE <<start, start + kf.splits * DrawsPerFold(m, kf)>>

\* The Result of run_k_folds for models[m], evaluated from position `start`.
Result(m, kf, start) ==
    [type |-> Models[m], data_size |-> Len(kf.inputs), folds |-> kf.splits,
     stream |-> Consumed(m, kf, start)]

RECURSIVE InTurnStart(_, _, _)
\* Where the evaluation of models[m] starts in the stream when the workers take
\* the tasks in turn, from the position the pool was forked at.
InTurnStart(m, kf, fork) ==
    IF m <= NumWorkers THEN fork
    ELSE InTurnStart(m - NumWorkers, kf, fork)
           + kf.splits * DrawsPerFold(m - NumWorkers, kf)

\* pool = mp.Pool(processes=mp.cpu_count()): the workers are forked with a copy
\* of the generator's state.
PoolCell ==
    /\ nb \in {"evaluate", "pool"} /\ pc = "pool"
    /\ workers' = [w \in 1..NumWorkers |->
                      [task |-> 0, fold |-> 0, rng |-> rng, start |-> rng]]
    /\ pc' = "map"
    /\ UNCHANGED << nb, err, oversample, file, dm_data, featurized_data, dm_groups,
                    dm_outputs, k_folds, results, res_df, saved, train, handed,
                    model, exported, labeled_data, foldVars, rng, taskq, outcome,
                    raising >>

\* The first fold of run_k_folds gets as far as fitting the model.
ReachesFit(kf) ==
    /\ CanSplit(kf.groups, kf.splits)
    /\ Truthy(kf.sampling)
          => ~OversampleRaises(TrainIndices(kf.groups, kf.splits, 1), kf.outputs)

\* run_k_folds raises on this data: too few groups, a fold without a minority
\* example to resample, or an undefined value in the matrix a model is fitted on.
EvaluationRaises(kf) ==
    \/ ~CanSplit(kf.groups, kf.splits)
    \/ /\ Truthy(kf.sampling)
       /\ \E f \in 1..kf.splits :
             OversampleRaises(TrainIndices(kf.groups, kf.splits, f), kf.outputs)
    \/ HasNaN(kf.inputs)

\* results = pool.map(k_folds, models), the workers taking the tasks in turn.
MapCell ==
    /\ nb = "evaluate" /\ pc = "map"
    /\ handed' = IF ReachesFit(k_folds) THEN k_folds.inputs ELSE handed
    /\ IF EvaluationRaises(k_folds)
       THEN /\ err' = "ValueError" /\ pc' = "error"
            /\ UNCHANGED results
       ELSE /\ results' = [m \in 1..Len(Models) |->
                              Result(m, k_folds, InTurnStart(m, k_folds, rng))]
            /\ pc' = "compile"
            /\ UNCHANGED err
    /\ UNCHANGED << nb, oversample, file, dm_data, featurized_data, dm_groups,
                    dm_outputs, k_folds, res_df, saved, train, model, exported,
                    labeled_data, foldVars, rng, poolVars >>

\* compile_data(result) with ramping off: one row of the report for the model.
compile_data(result) ==
    << [type |-> result.type, data_size |-> result.data_size,
        folds |-> result.folds] >>

\* compiled.extend(compile_data(result)) for each result; res_df.to_csv(save_path)
CompileCell ==
    /\ nb \in {"evaluate", "pool"} /\ pc = "compile"
    /\ res_df' = Flatten([m \in 1..Len(results) |-> compile_data(results[m])])
    /\ saved' = res_df'
    /\ pc' = IF nb = "evaluate" THEN "choose" ELSE "done"
    /\ UNCHANGED << nb, err, oversample, file, dm_data, featurized_data, dm_groups,
                    dm_outputs, k_folds, results, train, handed, model, exported,
                    labeled_data, foldVars, rng, poolVars >>

\* model = models[0]
ChooseCell ==
    /\ nb = "evaluate" /\ pc = "choose"
    /\ model' = [nb |-> "model", type |-> Models[1], fitted |-> FALSE,
                 feature_set |-> <<>>, width |-> 0]
    /\ pc' = "oversample_all"
    /\ UNCHANGED << nb, err, oversample, file, dm_data, featurized_data, dm_groups,
                    dm_outputs, k_folds, results, res_df, saved, train, handed,
                    exported, labeled_data, foldVars, rng, poolVars >>

\* np.arange(0, len(dm.featurized_data), 1)
AllIndices == 1..Len(featurized_data)

\* train = oversample(np.arange(0, len(dm.featurized_data), 1), dm.outputs):
\* a call of whatever the name oversample is bound to.
OversampleAllCell ==
    /\ nb = "evaluate" /\ pc = "oversample_all"
    /\ IF oversample # "function"
       THEN /\ err' = "TypeError" /\ pc' = "error"
            /\ UNCHANGED << train, rng >>
       ELSE IF OversampleRaises(AllIndices, dm_outputs)
       THEN /\ err' = "ValueError" /\ pc' = "error"
            /\ UNCHANGED << train, rng >>
       ELSE /\ train' \in OversampleDrawing(AllIndices, dm_outputs, MaxDrawn)
            /\ rng' = rng + 1
            /\ pc' = "fit"
            /\ UNCHANGED err
    /\ UNCHANGED << nb, oversample, file, dm_data, featurized_data, dm_groups,
                    dm_outputs, k_folds, results, res_df, saved, handed, model,
                    exported, labeled_data, foldVars, poolVars >>

\* model.fit(dm.featurized_data[train], dm.outputs[train])
FitCell ==
    /\ nb = "evaluate" /\ pc = "fit"
    /\ handed' = featurized_data
    /\ IF HasNaN(featurized_data)
       THEN /\ err' = "ValueError" /\ pc' = "error"
            /\ UNCHANGED << model, rng >>
       ELSE /\ model' = [model EXCEPT !.fitted = TRUE,
                                      !.feature_set = feature_set_eval,
                                      !.width = FeatureWidth(feature_set_eval)]
            /\ rng' = rng + ModelDraws(model.type)
            /\ pc' = "export"
            /\ UNCHANGED err
    /\ UNCHANGED << nb, oversample, file, dm_data, featurized_data, dm_groups,
                    dm_outputs, k_folds, results, res_df, saved, train, exported,
                    labeled_data, foldVars, poolVars >>

\* pickle.dump(model, open(model_export_path, 'wb+'))
ExportCell ==
    /\ nb = "evaluate" /\ pc = "export"
    /\ exported' = model
    /\ pc' = "done"
    /\ UNCHANGED << nb, err, oversample, file, dm_data, featurized_data, dm_groups,
                    dm_outputs, k_folds, results, res_df, saved, train, handed,
                    model, labeled_data, foldVars, rng, poolVars >>

NextEvaluate ==
    \/ ImportCell
    \/ RerunImportCell
    \/ ConfigCell
    \/ LoadCell
    \/ SampleCell
    \/ ConvertCell
    \/ ShuffleCell
    \/ FeaturizeCell
    \/ GroupsCell
    \/ OutputsCell
    \/ PartialCell
    \/ PoolCell
    \/ MapCell
    \/ CompileCell
    \/ ChooseCell
    \/ OversampleAllCell
    \/ FitCell
    \/ ExportCell

-----------------------------------------------------------------------------
(* The predictor notebook, cell by cell.                                   *)

\* The systems a test table lists; Jx is no element symbol, and the last row
\* is malformed: its second column is empty.
TestSystems ==
    << <<"M1", "M2">>, <<"M2", "Ng">>, <<"M3", "Ud">>, <<"Jx", "M1">>,
       <<"M1", "">> >>

\* The test tables: up to MaxTestRecords distinct systems, in any order.
TestFiles ==
    UNION { { [p \in 1..n |->
                 [formulaA |-> TestSystems[s[p]][1],
                  formulaB |-> TestSystems[s[p]][2], index |-> p]] :
              s \in {t \in [1..n -> 1..Len(TestSystems)] :
                        \A a, b \in 1..n : a # b => t[a] # t[b]} } :
            n \in 1..MaxTestRecords }

\* The decision rules a fitted classifier can have.
Classifiers == {"never", "always", "odd_norm", "zero_property"}

\* model.predict on one feature vector.
PredictRow(rule, x) ==
    CASE rule = "never"    -> 0
      [] rule = "always"   -> 1
      [] rule = "odd_norm" -> x[1] % 2
      [] OTHER             -> IF x[2] = 0 THEN 1 ELSE 0

\* What the file at load_model_path can hold: a fitted random forest, fitted on
\* the columns of either notebook's feature set.
PickledModels ==
    { [nb |-> "model", type |-> "RandomForestClassifier", fitted |-> TRUE,
       feature_set |-> fs, width |-> FeatureWidth(fs), rule |-> c] :
      fs \in {feature_set_eval, feature_set_pred}, c \in Classifiers }

InitPredict ==
    /\ nb = "predict" /\ pc = "load" /\ err = ""
    /\ oversample = "unbound"
    /\ file \in TestFiles
    /\ dm_data = <<>> /\ featurized_data = <<>>
    /\ dm_groups = <<>> /\ dm_outputs = <<>>
    /\ k_folds = Idle /\ results = <<>> /\ res_df = <<>> /\ saved = <<>>
    /\ train = <<>> /\ handed = <<>> /\ model = Idle /\ exported = Idle
    /\ labeled_data = <<>>
    /\ fold = 0 /\ fold_train = <<>> /\ fold_test = {} /\ fold_part = {}
    /\ rng = 0 /\ workers = <<>> /\ taskq = <<>> /\ outcome = <<>> /\ raising = {}

\* dm = DataManager(load_test_path, save_path); dm.load()
LoadTestCell ==
    /\ nb = "predict" /\ pc = "load"
    /\ dm_data' = file
    /\ pc' = "validate"
    /\ UNCHANGED << nb, err, oversample, file, featurized_data, dm_groups,
                    dm_outputs, k_folds, results, res_df, saved, train, handed,
                    model, exported, labeled_data, foldVars, rng, poolVars >>

\* dm.validate_data(): every entry of the first two columns is an element.
ValidData(data) ==
    \A p \in 1..Len(data) :
        ValidSymbol(data[p].formulaA) /\ ValidSymbol(data[p].formulaB)

\* A validation cell that lets every table through.
AfterValidateLenient(data) == "convert"

\* Where the validation cell leaves the run: at the next cell, or in the error
\* it raised.
AfterValidate(data) == IF ValidData(data) THEN "convert" ELSE "error"

ValidateCell ==
    /\ nb = "predict" /\ pc = "validate"
    /\ pc' = AfterValidate(dm_data)
    /\ err' = IF pc' = "error" THEN "ValueError" ELSE err
    /\ UNCHANGED << nb, oversample, file, dm_data, featurized_data, dm_groups,
                    dm_outputs, k_folds, results, res_df, saved, train, handed,
                    model, exported, labeled_data, foldVars, rng, poolVars >>

\* The rows made of the test record at position p: one per integer formula.
RowsOfTestRecord(rec, p) ==
    [j \in 1..NumCompositions |->
        [formulaA |-> rec.formulaA, formulaB |-> rec.formulaB,
         qa |-> IntegerFormula(j - 1, NumCompositions).qa,
         qb |-> IntegerFormula(j - 1, NumCompositions).qb,
         group |-> p, rec |-> rec.index, composition |-> FALSE]]

\* dm.convert_inputs()
convert_inputs(data) ==
    Flatten([p \in 1..Len(data) |-> RowsOfTestRecord(data[p], p)])

\* dm.convert_inputs(); dm.get_pymatgen_composition()
ConvertInputsCell ==
    /\ nb = "predict" /\ pc = "convert"
    /\ dm_data' = get_pymatgen_composition(convert_inputs(dm_data))
    /\ pc' = "featurize"
    /\ UNCHANGED << nb, err, oversample, file, featurized_data, dm_groups,
                    dm_outputs, k_folds, results, res_df, saved, train, handed,
                    model, exported, labeled_data, foldVars, rng, poolVars >>

\* The featurize cell without its last statement.
PredictorMatrixUnfilled(data) == featurize(data, feature_set_pred)

\* dm.featurized_data = f.featurize(dm.data)
\* dm.featurized_data = np.nan_to_num(dm.featurized_data)
PredictorMatrix(data) == nan_to_num(featurize(data, feature_set_pred))

FeaturizeTestCell ==
    /\ nb = "predict" /\ pc = "featurize"
    /\ featurized_data' = PredictorMatrix(dm_data)
    /\ pc' = "load_model"
    /\ UNCHANGED << nb, err, oversample, file, dm_data, dm_groups, dm_outputs,
                    k_folds, results, res_df, saved, train, handed, model, exported,
                    labeled_data, foldVars, rng, poolVars >>

\* with open(load_model_path, "rb") as f: model = pickle.load(f)
LoadModelCell ==
    /\ nb = "predict" /\ pc = "load_model"
    /\ model' \in PickledModels
    /\ pc' = "predict"
    /\ UNCHANGED << nb, err, oversample, file, dm_data, featurized_data, dm_groups,
                    dm_outputs, k_folds, results, res_df, saved, train, handed,
                    exported, labeled_data, foldVars, rng, poolVars >>

\* The predictions written from the last row to the first.
PredictColumnReversed(m, matrix) ==
    [i \in 1..Len(matrix) |-> PredictRow(m.rule, matrix[Len(matrix) + 1 - i])]

\* model.predict(dm.featurized_data)
PredictColumn(m, matrix) ==
    [i \in 1..Len(matrix) |-> PredictRow(m.rule, matrix[i])]

\* dm.data['stable'] = model.predict(dm.featurized_data); predict raises when
\* the matrix has not the number of columns the model was fitted on.
PredictCell ==
    /\ nb = "predict" /\ pc = "predict"
    /\ handed' = featurized_data
    /\ IF model.width # Len(featurized_data[1])
       THEN /\ err' = "ValueError" /\ pc' = "error"
            /\ UNCHANGED dm_data
       ELSE /\ dm_data' = [i \in 1..Len(dm_data) |->
                 [formulaA |-> dm_data[i].formulaA, formulaB |-> dm_data[i].formulaB,
                  qa |-> dm_data[i].qa, qb |-> dm_data[i].qb,
                  group |-> dm_data[i].group, rec |-> dm_data[i].rec,
                  composition |-> dm_data[i].composition,
                  stable |-> PredictColumn(model, featurized_data)[i]]]
            /\ pc' = "to_vec"
            /\ UNCHANGED err
    /\ UNCHANGED << nb, oversample, file, featurized_data, dm_groups, dm_outputs,
                    k_folds, results, res_df, saved, train, model, exported,
                    labeled_data, foldVars, rng, poolVars >>

\* A mapping that writes the predictions of the first record's rows on every
\* record.
binary_to_vec_first(records, data) ==
    [p \in 1..Len(records) |->
        [formulaA |-> records[p].formulaA, formulaB |-> records[p].formulaB,
         index |-> records[p].index,
         stabilityVec |->
            LET rows == SelectSeq(data, LAMBDA r : r.group = 1)
            IN [j \in 1..Len(rows) |-> rows[j].stable]]]

\* dm.binary_to_vec(): each loaded record with the predictions of its rows, in
\* the order of the rows.
binary_to_vec(records, data) ==
    [p \in 1..Len(records) |->
        [formulaA |-> records[p].formulaA, formulaB |-> records[p].formulaB,
         index |-> records[p].index,
         stabilityVec |->
            LET rows == SelectSeq(data, LAMBDA r : r.group = p)
            IN [j \in 1..Len(rows) |-> rows[j].stable]]]

\* dm.binary_to_vec(); dm.labeled_data.to_csv(save_path)
BinaryToVecCell ==
    /\ nb = "predict" /\ pc = "to_vec"
    /\ labeled_data' = binary_to_vec(file, dm_data)
    /\ saved' = labeled_data'
    /\ pc' = "done"
    /\ UNCHANGED << nb, err, oversample, file, dm_data, featurized_data, dm_groups,
                    dm_outputs, k_folds, results, res_df, train, handed, model,
                    exported, foldVars, rng, poolVars >>

NextPredict ==
    \/ LoadTestCell
    \/ ValidateCell
    \/ ConvertInputsCell
    \/ FeaturizeTestCell
    \/ LoadModelCell
    \/ PredictCell
    \/ BinaryToVecCell

Init == InitEvaluate \/ InitPredict

Next == NextEvaluate \/ NextPredict

\* Both notebooks, each run from its first cell on every input table.
Spec == Init /\ [][Next]_vars


-----------------------------------------------------------------------------
(* pool.map(k_folds, models), task by task and fold by fold.               *)

\* The models whose evaluation raises on the dispatched data: the pool is taken
\* alone, on a table of one row per fold, with any such set.
InitPool ==
    /\ nb = "pool" /\ pc = "pool" /\ err = ""
    /\ oversample \in {"True", "False"}
    /\ file = <<>> /\ dm_data = <<>>
    /\ featurized_data = [i \in 1..Splits |-> <<i>>]
    /\ dm_groups = [i \in 1..Splits |-> i]
    /\ dm_outputs = [i \in 1..Splits |-> i % 2]
    /\ k_folds = [nb |-> "partial", inputs |-> featurized_data,
                  outputs |-> dm_outputs, groups |-> dm_groups,
                  sampling |-> oversample, ramp |-> data_ramp, splits |-> Splits]
    /\ results = <<>> /\ res_df = <<>> /\ saved = <<>>
    /\ train = <<>> /\ handed = <<>> /\ model = Idle /\ exported = Idle
    /\ labeled_data = <<>>
    /\ fold = 0 /\ fold_train = <<>> /\ fold_test = {} /\ fold_part = {}
    /\ rng = 1 /\ workers = <<>> /\ taskq = <<>> /\ outcome = <<>>
    /\ raising \in {R \in SUBSET (1..Len(Models)) : Cardinality(R) <= MaxRaising}

\* pool.map is entered: one task per model, in the order of the list.
MapDispatch ==
    /\ nb = "pool" /\ pc = "map"
    /\ taskq' = [m \in 1..Len(Models) |-> m]
    /\ outcome' = [m \in 1..Len(Models) |-> [state |-> "pending"]]
    /\ pc' = "wait"
    /\ UNCHANGED << nb, err, oversample, file, dm_data, featurized_data, dm_groups,
                    dm_outputs, k_folds, results, res_df, saved, train, handed,
                    model, exported, labeled_data, foldVars, rng, workers, raising >>

\* An idle worker takes the next task; its generator is where its last task
\* left it.  Of the idle workers whose generators are at the same position, the
\* first takes it.
WorkerTake(w) ==
    /\ nb = "pool" /\ pc = "wait"
    /\ workers[w].task = 0 /\ taskq # <<>>
    /\ \A v \in 1..(w - 1) :
          workers[v].task # 0 \/ workers[v].rng # workers[w].rng
    /\ workers' = [workers EXCEPT ![w] =
                      [task |-> Head(taskq), fold |-> 0, rng |-> @.rng,
                       start |-> @.rng]]
    /\ taskq' = Tail(taskq)
    /\ UNCHANGED << nb, pc, err, oversample, file, dm_data, featurized_data,
                    dm_groups, dm_outputs, k_folds, results, res_df, saved, train,
                    handed, model, exported, labeled_data, foldVars, rng, outcome,
                    raising >>

\* The worker runs one fold of its task: resampling and fit draw from its
\* generator.
WorkerFold(w) ==
    /\ nb = "pool" /\ pc = "wait"
    /\ workers[w].task # 0 /\ workers[w].fold < k_folds.splits
    /\ workers[w].task \in raising => workers[w].fold < k_folds.splits - 1
    /\ workers' = [workers EXCEPT ![w].fold = @ + 1,
                      ![w].rng = @ + DrawsPerFold(workers[w].task, k_folds)]
    /\ UNCHANGED << nb, pc, err, oversample, file, dm_data, featurized_data,
                    dm_groups, dm_outputs, k_folds, results, res_df, saved, train,
                    handed, model, exported, labeled_data, foldVars, rng, taskq,
                    outcome, raising >>

\* The outcomes the parent has collected so far.
Collected(out) == {m \in DOMAIN out : out[m].state # "pending"}

\* The task raises in a fold: the worker sends the exception back and lives on.
WorkerRaise(w) ==
    /\ nb = "pool" /\ pc = "wait"
    /\ workers[w].task \in raising /\ workers[w].fold < k_folds.splits
    /\ outcome' = [outcome EXCEPT ![workers[w].task] =
                      [state |-> "raised", error |-> "ValueError",
                       rank |-> Cardinality(Collected(outcome)) + 1]]
    /\ workers' = [workers EXCEPT ![w].task = 0, ![w].fold = 0,
                                   ![w].start = workers[w].rng]
    /\ UNCHANGED << nb, pc, err, oversample, file, dm_data, featurized_data,
                    dm_groups, dm_outputs, k_folds, results, res_df, saved, train,
                    handed, model, exported, labeled_data, foldVars, rng, taskq,
                    raising >>

\* The task returns its Result after the last fold.
WorkerReturn(w) ==
    /\ nb = "pool" /\ pc = "wait"
    /\ workers[w].task # 0 /\ workers[w].fold = k_folds.splits
    /\ outcome' = [outcome EXCEPT ![workers[w].task] =
                      [state |-> "ok",
                       value |-> Result(workers[w].task, k_folds, workers[w].start),
                       rank |-> Cardinality(Collected(outcome)) + 1]]
    /\ workers' = [workers EXCEPT ![w].task = 0, ![w].fold = 0,
                                   ![w].start = workers[w].rng]
    /\ UNCHANGED << nb, pc, err, oversample, file, dm_data, featurized_data,
                    dm_groups, dm_outputs, k_folds, results, res_df, saved, train,
                    handed, model, exported, labeled_data, foldVars, rng, taskq,
                    raising >>

\* A pool.map that hands back the results of the tasks that did not raise.
PoolMapValuePartial(out) ==
    [raised |-> FALSE,
     value  |-> LET ok == SelectSeq(out, LAMBDA o : o.state = "ok")
                IN [m \in 1..Len(ok) |-> ok[m].value]]

\* A pool.map that hands back the results in the order the tasks finished.
PoolMapValueAsFinished(out) ==
    IF \A m \in 1..Len(out) : out[m].state = "ok"
    THEN [raised |-> FALSE,
          value |-> [k \in 1..Len(out) |->
                        out[CHOOSE m \in 1..Len(out) : out[m].rank = k].value]]
    ELSE [raised |-> TRUE, value |-> <<>>]

\* What pool.map gives once every task has an outcome: the list of the results
\* in the order of the models, or the exception of a task that raised.
PoolMapValue(out) ==
    IF \A m \in 1..Len(out) : out[m].state = "ok"
    THEN [raised |-> FALSE, value |-> [m \in 1..Len(out) |-> out[m].value]]
    ELSE [raised |-> TRUE, value |-> <<>>]

\* results = pool.map(k_folds, models) returns or raises.
MapReturn ==
    /\ nb = "pool" /\ pc = "wait"
    /\ \A m \in 1..Len(outcome) : outcome[m].state # "pending"
    /\ IF PoolMapValue(outcome).raised
       THEN /\ err' = "ValueError" /\ pc' = "error"
            /\ UNCHANGED results
       ELSE /\ results' = PoolMapValue(outcome).value
            /\ pc' = "compile"
            /\ UNCHANGED err
    /\ UNCHANGED << nb, oversample, file, dm_data, featurized_data, dm_groups,
                    dm_outputs, k_folds, res_df, saved, train, handed, model,
                    exported, labeled_data, foldVars, rng, poolVars >>

NextPool ==
    \/ PoolCell
    \/ MapDispatch
    \/ \E w \in 1..NumWorkers : WorkerTake(w)
    \/ \E w \in 1..NumWorkers : WorkerFold(w)
    \/ \E w \in 1..NumWorkers : WorkerRaise(w)
    \/ \E w \in 1..NumWorkers : WorkerReturn(w)
    \/ MapReturn
    \/ CompileCell

\* The pool cells of the evaluation notebook under every schedule of the workers.
SpecPool == InitPool /\ [][NextPool]_vars



\* Rows i and j are on the same side of a fold: both held out or both trained on.
SameSide(i, j, test, part) ==
    \/ i \in test /\ j \in test
    \/ i \in part /\ j \in part

\* C1: in every fold run_k_folds evaluates, for every table, group assignment
\* and fold count from 2, two rows with the same group id (dm.groups) are both
\* in the training partition or both in the held-out partition; and when the
\* run returns, the rows of each group were held out together in exactly one fold.
C1_GroupsNeverSplit ==
    /\ \A f \in 1..Len(results) : \A i, j \in DOMAIN dm_groups :
          dm_groups[i] = dm_groups[j]
             => SameSide(i, j, results[f].test, results[f].train)
    /\ fold > 0 =>
          \A i, j \in DOMAIN dm_groups :
             dm_groups[i] = dm_groups[j]
                => SameSide(i, j, fold_test, fold_part)
    /\ pc = "return" =>
          \A g \in GroupIds(dm_groups) :
             Cardinality({f \in 1..Len(results) :
                 {i \in DOMAIN dm_groups : dm_groups[i] = g} \subseteq results[f].test}) = 1

\* C1, its case: four rows forming two groups of two, split 2-fold, run to the end.
C1_Witness ==
    /\ nb = "kfold" /\ pc = "return" /\ k_folds.splits = 2
    /\ Len(dm_groups) = 4
    /\ Cardinality(GroupIds(dm_groups)) = 2
    /\ \A g \in GroupIds(dm_groups) : GroupCount(dm_groups, g) = 2
    /\ dm_groups[1] # dm_groups[2]

\* C2: the folds partition the record indices: in each fold the training and
\* held-out sets are disjoint and together are all the records; no index is held
\* out in two folds; and when the run returns there are `splits` folds and every
\* index was held out in exactly one of them.
C2_FoldsPartition ==
    LET all == 1..Len(featurized_data) IN
    /\ \A f \in 1..Len(results) :
          /\ results[f].test \cap results[f].train = {}
          /\ results[f].test \cup results[f].train = all
    /\ \A f, g \in 1..Len(results) :
          f # g => results[f].test \cap results[g].test = {}
    /\ pc = "return" =>
          /\ Len(results) = k_folds.splits
          /\ \A i \in all :
                Cardinality({f \in 1..Len(results) : i \in results[f].test}) = 1

\* C2, its case: a run of three folds over four records has returned.
C2_Witness ==
    /\ nb = "kfold" /\ pc = "return"
    /\ Len(results) = 3 /\ Len(featurized_data) = 4
    /\ \A f \in 1..3 : results[f].test # {}



-----------------------------------------------------------------------------
(* Oversampling, the stability vector, group ids, undefined values.        *)

\* The multiset `bag` (a count per index) holds every majority index of the
\* partition, no index outside it, and as many minority as majority entries.
Balanced(bag, part, outputs) ==
    LET minority == MinorityOf(part, outputs)
        majority == part \ minority
    IN /\ DOMAIN bag = 1..Len(outputs)
       /\ \A i \in majority : bag[i] >= 1
       /\ \A i \in DOMAIN bag : i \notin part => bag[i] = 0
       /\ SumOver(minority, bag) = SumOver(majority, bag)

\* C3: what oversample returns is balanced and keeps every majority index: in
\* each fold of run_k_folds that resamples, and for the whole-dataset call of the
\* evaluation notebook once that cell has been executed (the run is past it, or
\* it is the cell that raised the TypeError).
C3_OversampleBalanced ==
    /\ (nb = "kfold" /\ fold > 0 /\ Truthy(k_folds.sampling))
          => Balanced(fold_train, fold_part, dm_outputs)
    /\ (nb = "evaluate" /\ (pc \in {"fit", "export", "done"} \/ err = "TypeError"))
          => /\ train # <<>>
             /\ Balanced(train, AllIndices, dm_outputs)

\* The stability vector written on the record at position p.
VecOf(p) == labeled_data[p].stabilityVec

C5_GroupIffSameRecord ==
    LET converted ==
            \/ nb = "evaluate" /\ pc \notin {"import", "config", "load", "sample",
                                             "convert"}
            \/ nb = "predict" /\ pc \notin {"load", "validate", "convert", "error"}
    IN /\ converted =>
            \A i, j \in 1..Len(dm_data) :
               /\ dm_data[i].group = dm_data[j].group
                     <=> dm_data[i].rec = dm_data[j].rec
               /\ dm_data[i].group = dm_data[j].group
                     <=> /\ dm_data[i].formulaA = dm_data[j].formulaA
                         /\ dm_data[i].formulaB = dm_data[j].formulaB
       /\ (nb = "evaluate" /\ dm_groups # <<>>) =>
            /\ Len(dm_groups) = Len(dm_data)
            /\ \A i, j \in 1..Len(dm_data) :
                  dm_groups[i] = dm_groups[j] <=> dm_data[i].rec = dm_data[j].rec

\* C5, its case: dm.groups is bound on a sampled table in which a system kept
\* several rows, another system has rows too, and the sample is not in file order.
C5_Witness ==
    /\ nb = "evaluate" /\ dm_groups # <<>>
    /\ \E i, j \in 1..Len(dm_groups) :
          i # j /\ dm_groups[i] = dm_groups[j]
    /\ \E i, j \in 1..Len(dm_groups) : dm_groups[i] # dm_groups[j]
    /\ \E i \in 1..Len(dm_data) : dm_data[i].group # dm_data[i].rec

-----------------------------------------------------------------------------
(* The process pool.                                                       *)

\* C8: for the fixed seed, file and configuration, the results pool.map returns
\* are the same under every assignment of the tasks to the workers: they are the
\* results of the run in which the workers take the tasks in turn.
C8_SeedReproducible ==
    (nb = "pool" /\ pc \in {"compile", "done"}) =>
        results = [m \in 1..Len(Models) |->
                      Result(m, k_folds, InTurnStart(m, k_folds, rng))]

\* C9: under every interleaving, the result a worker computes for a model is the
\* result of that model on the dispatched data evaluated on its own, whatever
\* other tasks ran before it or run beside it.
C9_ResultOfModelAlone ==
    nb = "pool" =>
        \A m \in DOMAIN outcome :
            outcome[m].state = "ok" => outcome[m].value = Result(m, k_folds, rng)

\* C10: once a task of pool.map has raised, the run never gets a results list, a
\* results table or a saved file: it waits for the other tasks and ends in the
\* error, the raised task being neither queued again nor taken again.
C10_FailurePropagates ==
    (nb = "pool" /\ \E m \in DOMAIN outcome : outcome[m].state = "raised") =>
        /\ results = <<>> /\ res_df = <<>> /\ saved = <<>>
        /\ pc \in {"wait", "error"}
        /\ pc = "error" => /\ err = "ValueError"
                           /\ \A m \in DOMAIN outcome : outcome[m].state # "pending"
        /\ \A m \in DOMAIN outcome :
              outcome[m].state = "raised" =>
                 /\ \A q \in DOMAIN taskq : taskq[q] # m
                 /\ \A w \in DOMAIN workers : workers[w].task # m

\* C10, its case: pool.map has raised while other models' evaluations had
\* returned their results.
C10_Witness ==
    /\ nb = "pool" /\ pc = "error"
    /\ \E m \in DOMAIN outcome : outcome[m].state = "raised"
    /\ \E m \in DOMAIN outcome : outcome[m].state = "ok"

-----------------------------------------------------------------------------
(* The predictor's validation and output.                                  *)

\* C11: on a test table with an invalid element symbol or a malformed row the
\* predictor never gets past the validation cell: the table is not converted,
\* nothing is featurized, no model is loaded or applied, nothing is written; the
\* run is before the validation, or stopped in its error.
C11_ValidationHalts ==
    (nb = "predict" /\ ~ValidData(file)) =>
        /\ pc \in {"load", "validate", "error"}
        /\ dm_data \in {<<>>, file}
        /\ featurized_data = <<>> /\ model = Idle /\ handed = <<>>
        /\ labeled_data = <<>> /\ saved = <<>>
        /\ pc = "error" => err = "ValueError"

\* C11, its case: the validation has raised on a two-record table whose second
\* record is the invalid one.
C11_Witness ==
    /\ nb = "predict" /\ pc = "error" /\ err = "ValueError"
    /\ Len(file) = 2
    /\ ValidSymbol(file[1].formulaA) /\ ValidSymbol(file[1].formulaB)
    /\ ~ValidData(file)

-----------------------------------------------------------------------------
(* The evaluation: folds, results table, rows and groups.                  *)

\* C12: the evaluation notebook runs 10-fold cross-validation: run_k_folds is
\* bound with 10 splits and every model's result aggregates exactly 10 folds.
C12_TenFolds ==
    /\ (nb = "evaluate" /\ k_folds # Idle) => k_folds.splits = DocumentedFolds
    /\ (nb = "evaluate" /\ results # <<>>) =>
          \A m \in 1..Len(results) : results[m].folds = DocumentedFolds

PlaceInRecord(i) ==
    Cardinality({k \in 1..i : dm_data[k].rec = dm_data[i].rec})

\* C14: nothing is written before the predictor's last cell; what is written
\* then is the labeled table: the loaded records, each once and in the order of
\* the file, with their columns as loaded, each with a stability vector; and
\* every prediction of the model is in the vector of the record its row was
\* converted from, at the row's place, the vectors holding nothing else.
C14_LabeledTableComplete ==
    nb = "predict" =>
        /\ pc # "done" => saved = <<>> /\ labeled_data = <<>>
        /\ pc = "done" =>
              /\ saved = labeled_data
              /\ Len(saved) = Len(file)
              /\ \A p \in 1..Len(file) :
                    /\ saved[p].formulaA = file[p].formulaA
                    /\ saved[p].formulaB = file[p].formulaB
                    /\ saved[p].index = file[p].index
                    /\ Len(saved[p].stabilityVec) =
                          Cardinality({i \in 1..Len(dm_data) : dm_data[i].rec = p})
              /\ \A i \in 1..Len(dm_data) :
                    saved[dm_data[i].rec].stabilityVec[PlaceInRecord(i)]
                       = dm_data[i].stable

\* C14, its case: a table of two records was written whose records got
\* different stability vectors.
C14_Witness ==
    /\ nb = "predict" /\ pc = "done" /\ Len(saved) = 2
    /\ saved[1].stabilityVec # saved[2].stabilityVec

\* The evaluation notebook has converted its table.
Converted ==
    nb = "evaluate" /\ pc \notin {"import", "config", "load", "sample", "convert"}

\* The elements of entry j of the stability vector of a loaded record.
EntryElements(rec, j) ==
    RowElements([formulaA |-> rec.formulaA, formulaB |-> rec.formulaB,
                 qa |-> IntegerFormula(j - 1, VecLen).qa,
                 qb |-> IntegerFormula(j - 1, VecLen).qb])

\* C15: once the table is converted, none of its rows contains a noble gas;
\* every compound without a noble gas of every record in the table is there
\* exactly once, with the record's formulas, its label and the record's group
\* id; and the feature matrix, labels and groups, and what run_k_folds is given,
\* have exactly the rows of that table.
C15_NoNobleGasRows ==
    Converted =>
        /\ \A i \in 1..Len(dm_data) : RowElements(dm_data[i]) \cap NobleGases = {}
        /\ \A i \in 1..Len(dm_data) : \A j \in 1..VecLen :
              LET rec == file[dm_data[i].rec]
                  f   == IntegerFormula(j - 1, VecLen)
              IN EntryElements(rec, j) \cap NobleGases = {} =>
                    Cardinality({k \in 1..Len(dm_data) :
                        /\ dm_data[k].rec = rec.index
                        /\ dm_data[k].group = dm_data[i].group
                        /\ dm_data[k].formulaA = rec.formulaA
                        /\ dm_data[k].formulaB = rec.formulaB
                        /\ dm_data[k].qa = f.qa /\ dm_data[k].qb = f.qb
                        /\ dm_data[k].stable = rec.stabilityVec[j]}) = 1
        /\ featurized_data # <<>> => Len(featurized_data) = Len(dm_data)
        /\ dm_groups # <<>> => dm_groups = [i \in 1..Len(dm_data) |-> dm_data[i].group]
        /\ dm_outputs # <<>> => Len(dm_outputs) = Len(dm_data)
        /\ k_folds # Idle =>
              /\ Len(k_folds.inputs) = Len(dm_data)
              /\ k_folds.groups = dm_groups /\ k_folds.outputs = dm_outputs

\* C15, its case: run_k_folds is bound on a table from which rows with a noble
\* gas were removed and rows of the same records were kept.
C15_Witness ==
    /\ Converted /\ k_folds # Idle
    /\ \E i \in 1..Len(dm_data) : \E j \in 1..VecLen :
          EntryElements(file[dm_data[i].rec], j) \cap NobleGases # {}
    /\ Len(k_folds.inputs) < VecLen * SampleSize
    /\ Len(k_folds.inputs) > SampleSize

\* C16: in every fold of run_k_folds, every index of the training multiset the
\* model is fitted on (resampled or not) is an index of the fold's training
\* partition: none is held out in the fold, none is a row of a group that is
\* held out; and the held-out partition that is scored is the split's held-out
\* set as it is.
C16_OversampleTrainingOnly ==
    (nb = "kfold" /\ fold > 0) =>
        /\ \A i \in DOMAIN fold_train :
              fold_train[i] > 0 =>
                 /\ i \in fold_part /\ i \notin fold_test
                 /\ \A j \in fold_test : dm_groups[j] # dm_groups[i]
        /\ fold_test = TestIndices(dm_groups, k_folds.splits, fold)
        /\ results[fold].test = fold_test

\* C16, its case: a fold with resampling on, in which an index was drawn more
\* than once and rows are held out.
C16_Witness ==
    /\ nb = "kfold" /\ fold > 0 /\ Truthy(k_folds.sampling)
    /\ \E i \in DOMAIN fold_train : fold_train[i] >= 2
    /\ fold_test # {}

\* Position i of the matrix, of the labels and of the groups is row i of dm.data.
Aligned(matrix, outputs, groups) ==
    /\ Len(matrix) = Len(dm_data)
    /\ Len(outputs) = Len(dm_data)
    /\ Len(groups) = Len(dm_data)
    /\ \A i \in 1..Len(dm_data) :
          /\ matrix[i] = featurize(<<dm_data[i]>>, feature_set_eval)[1]
          /\ outputs[i] = dm_data[i].stable
          /\ groups[i] = dm_data[i].group

RowsOfRecord(r) == {i \in 1..Len(dm_data) : dm_data[i].rec = r}

\* The number of compounds of a loaded record that hold no noble gas.
KeptEntries(rec) ==
    Cardinality({j \in 1..VecLen : EntryElements(rec, j) \cap NobleGases = {}})

\* C18: sampling takes whole records: the sampled table is a list of distinct
\* records of the file, SampleSize of them (all when the file has fewer); and of
\* every record of the file the converted table has either no row or every row
\* the conversion makes of it (every compound without a noble gas), next to each
\* other, under one group id that no other record has.
C18_SamplingKeepsGroupsWhole ==
    LET size == IF Len(file) <= SampleSize THEN Len(file) ELSE SampleSize
    IN /\ (nb = "evaluate" /\ pc = "convert") =>
             /\ Len(dm_data) = size
             /\ \A p \in 1..Len(dm_data) : dm_data[p] = file[dm_data[p].index]
             /\ \A p, q \in 1..Len(dm_data) :
                   dm_data[p].index = dm_data[q].index => p = q
       /\ Converted =>
             /\ Cardinality({r \in 1..Len(file) : RowsOfRecord(r) # {}}) = size
             /\ \A r \in 1..Len(file) :
                   \/ RowsOfRecord(r) = {}
                   \/ /\ Cardinality(RowsOfRecord(r)) = KeptEntries(file[r])
                      /\ \A i, k \in RowsOfRecord(r) : \A m \in i..k :
                            m \in RowsOfRecord(r)
                      /\ \A i \in RowsOfRecord(r) : \A k \in 1..Len(dm_data) :
                            dm_data[k].group = dm_data[i].group
                               <=> k \in RowsOfRecord(r)

\* C18, its case: a table converted from a sample that left a record of the file
\* out and kept records of several rows.
C18_Witness ==
    /\ Converted /\ Len(file) > SampleSize
    /\ \E r \in 1..Len(file) : RowsOfRecord(r) = {}
    /\ \E r \in 1..Len(file) : Cardinality(RowsOfRecord(r)) = VecLen
    /\ \E r \in 1..Len(file) :
          RowsOfRecord(r) # {} /\ Cardinality(RowsOfRecord(r)) < VecLen

=============================================================================
